---- MODULE Spec2Model ----
(***************************************************************************)
(* Model of src/app.py: a Streamlit page that gates a diagram generator    *)
(* behind a Stripe subscription.  One action is one user interaction: the  *)
(* script run it triggers, the handler of the clicked button, and (where   *)
(* the handler calls st.rerun()) the rerun that draws the page again.      *)
(*                                                                         *)
(* Python values: a string is [str |-> <<characters>>], None is            *)
(* [none |-> TRUE]; st.session_state is a function from the keys that are  *)
(* present to their values.                                                *)
(***************************************************************************)
EXTENDS Naturals, Sequences, FiniteSets, TLC

VARIABLES
    STRIPE_PRODUCTS,       \* plan id -> price_id, read from the configuration at start
    session_state,         \* st.session_state
    login_email,           \* the sidebar's e-mail input as last submitted
    clicked,               \* the button whose handler ran in the last interaction ("" = none)
    message,               \* the inline message (st.error/st.info) left on the page
    checkout_url,          \* the payment link shown by the paywall, or None
    view,                  \* the branch of the main body drawn last
    stripe_subscriptions,  \* the provider's subscriptions of the customer, most recent first
    stripe_error,          \* the exception stripe.Subscription.list raises, or None
    sub_status,            \* what check_subscription_status returned, or NotCalled
    method_text,           \* the workspace's text area
    title,                 \* the workspace's title input
    caption,               \* the workspace's caption input
    diagram_type,          \* the workspace's diagram type radio
    generation,            \* "idle", or "awaiting" while pipeline.generate is suspended
    tmp_file,              \* the temp file of the last generation (content, deleted), or None
    pipeline_call          \* the GenerationInput handed to pipeline.generate, or None

vars == <<STRIPE_PRODUCTS, session_state, login_email, clicked, message, checkout_url, view,
          stripe_subscriptions, stripe_error, sub_status,
          method_text, title, caption, diagram_type, generation, tmp_file,
          pipeline_call>>

appVars == <<STRIPE_PRODUCTS, session_state, login_email, clicked, message, checkout_url, view>>
billingVars == <<stripe_subscriptions, stripe_error, sub_status>>
workspaceVars == <<method_text, title, caption, diagram_type, generation, tmp_file,
                   pipeline_call>>

----------------------------------------------------------------------------
(* Bounds *)

MaxEmailLen == 2
MaxTextLen == 2
MaxSubs == 2

----------------------------------------------------------------------------
(* Python values *)

None == [none |-> TRUE]
Str(s) == [str |-> s]

\* Python truth value of an optional string: None and "" are false.
Truthy(v) == v # None /\ v.str # <<>>

SeqsUpTo(S, n) == UNION {[1..k -> S] : k \in 0..n}

EmailChar == {"B", "@"}
Emails == {Str(s) : s \in SeqsUpTo(EmailChar, MaxEmailLen)}

TextChar == {" ", "x"}
Texts == {Str(s) : s \in SeqsUpTo(TextChar, MaxTextLen)}

\* str.lower()
LowerChar(c) == IF c = "B" THEN "b" ELSE c
lower(s) == [i \in 1..Len(s) |-> LowerChar(s[i])]

\* st.session_state.<k> = v
SetItem(ss, k, v) == [x \in DOMAIN ss \cup {k} |-> IF x = k THEN v ELSE ss[x]]

Plans == {"pro", "enterprise"}
PriceOf(plan) == Str(<<"price_", plan>>)

DiagramTypes == {"METHODOLOGY", "FLOWCHART", "ARCHITECTURE"}

NoMessage == [kind |-> "none"]

----------------------------------------------------------------------------
(* Session state *)

EmptySession == [k \in {} |-> None]

SessionDefaults ==
    [user_id |-> None, user_email |-> None, subscription_plan |-> None,
     subscription_valid_until |-> None]

init_session_state(ss) ==
    [k \in DOMAIN ss \cup {"user_id", "user_email", "is_subscribed",
                           "subscription_plan", "subscription_valid_until"} |->
        IF k \in DOMAIN ss THEN ss[k]
        ELSE IF k = "is_subscribed" THEN FALSE
        ELSE SessionDefaults[k]]

authenticate_user(ss, email) ==
    SetItem(SetItem(ss, "user_id", Str(lower(email.str))), "user_email", email)

\* A logout that forgets the subscription flag.
logout_keeps_subscription(ss) ==
    SetItem(SetItem(SetItem(SetItem(ss,
        "user_id", None),
        "user_email", None),
        "subscription_plan", None),
        "subscription_valid_until", None)

logout(ss) ==
    SetItem(SetItem(SetItem(SetItem(SetItem(ss,
        "user_id", None),
        "user_email", None),
        "is_subscribed", FALSE),
        "subscription_plan", None),
        "subscription_valid_until", None)

\* A login that grants access outright (a demo default).
login_handler_demo(ss, email) ==
    SetItem(authenticate_user(ss, email), "is_subscribed", TRUE)

\* The login button's handler, for a non-empty e-mail.
login_handler(ss, email) ==
    SetItem(authenticate_user(ss, email), "is_subscribed", FALSE)

\* A router that tests user_id against None instead of its truth value.
view_router_is_none(ss) ==
    IF ss["user_id"] = None THEN "Landing"
    ELSE IF ~ss["is_subscribed"] THEN "Paywall"
    ELSE "Workspace"

\* The main body's if / elif / else.
view_router(ss) ==
    IF ~Truthy(ss["user_id"]) THEN "Landing"
    ELSE IF ~ss["is_subscribed"] THEN "Paywall"
    ELSE "Workspace"

----------------------------------------------------------------------------
(* Billing client *)

\* What stripe.checkout.Session.create does with the price it is given: without a
\* price the provider rejects the request; with one it creates the session,
\* declines the card, or fails in another way.
StripeCreateOutcomes(price_id) ==
    IF price_id = None
    THEN {"InvalidRequestError", "APIConnectionError"}
    ELSE {"ok", "CardError", "InvalidRequestError", "APIConnectionError"}

\* A checkout that swallows every exception but the card error without a message.
create_stripe_checkout_session_silent(price_id, plan_name, outcome) ==
    IF outcome = "ok"
    THEN [session |-> Str(<<"checkout">> \o price_id.str), msg |-> NoMessage]
    ELSE IF outcome = "CardError"
    THEN [session |-> None, msg |-> [kind |-> "error", text |-> "Zahlungsfehler"]]
    ELSE [session |-> None, msg |-> NoMessage]

\* Returns the session (its url) or None, and the st.error it shows.
create_stripe_checkout_session(price_id, plan_name, outcome) ==
    IF outcome = "ok"
    THEN [session |-> Str(<<"checkout">> \o price_id.str), msg |-> NoMessage]
    ELSE IF outcome = "CardError"
    THEN [session |-> None, msg |-> [kind |-> "error", text |-> "Zahlungsfehler"]]
    ELSE [session |-> None,
          msg |-> [kind |-> "error", text |-> "Fehler beim Erstellen der Checkout-Session"]]

SubStatuses == {"active", "trialing", "past_due", "canceled"}
Nicknames == {None, Str(<<>>), Str(<<"pro">>), Str(<<"enterprise">>)}
SubPlans == {None} \cup {[nickname |-> n] : n \in Nicknames}
Subscriptions == [status : SubStatuses, plan : SubPlans]
StripeErrors == {"InvalidRequestError", "APIConnectionError"}

NotCalled == <<>>

LookupError == [kind |-> "error", text |-> "Fehler beim Pruefen des Subscriptions"]

\* A lookup that treats a failure as an active subscription (a demo default).
check_subscription_status_demo(subs, err) ==
    IF err # None
    THEN [ret |-> <<TRUE, Str(<<"Pro">>)>>, msg |-> LookupError]
    ELSE IF subs # <<>> /\ subs[1].status = "active" /\ subs[1].plan # None
    THEN [ret |-> <<TRUE, IF Truthy(subs[1].plan.nickname)
                          THEN subs[1].plan.nickname ELSE Str(<<"Pro">>)>>,
          msg |-> NoMessage]
    ELSE [ret |-> <<FALSE, None>>,
          msg |-> IF subs # <<>> /\ subs[1].status = "active" THEN LookupError ELSE NoMessage]

\* subs: the customer's subscriptions at the provider, most recent first; err: the
\* exception stripe.Subscription.list raises, or None.  sub.plan is None for a
\* subscription without a single plan, and reading its nickname raises
\* AttributeError inside the try.
check_subscription_status(subs, err) ==
    IF err # None
    THEN [ret |-> <<FALSE, None>>, msg |-> LookupError]
    ELSE LET data == SubSeq(subs, 1, IF Len(subs) < 1 THEN Len(subs) ELSE 1)
         IN  IF data # <<>>
             THEN LET sub == data[1]
                  IN  IF sub.status = "active"
                      THEN IF sub.plan = None
                           THEN [ret |-> <<FALSE, None>>, msg |-> LookupError]
                           ELSE [ret |-> <<TRUE, IF Truthy(sub.plan.nickname)
                                                 THEN sub.plan.nickname
                                                 ELSE Str(<<"Pro">>)>>,
                                 msg |-> NoMessage]
                      ELSE [ret |-> <<FALSE, None>>, msg |-> NoMessage]
             ELSE [ret |-> <<FALSE, None>>, msg |-> NoMessage]

----------------------------------------------------------------------------
(* Initial state: a fresh session after its first script run *)

InitApp ==
    /\ STRIPE_PRODUCTS \in [Plans -> {None} \cup {PriceOf(p) : p \in Plans}]
    /\ \A p \in Plans : STRIPE_PRODUCTS[p] \in {None, PriceOf(p)}
    /\ session_state = init_session_state(EmptySession)
    /\ login_email = Str(<<>>)
    /\ clicked = ""
    /\ message = NoMessage
    /\ checkout_url = None
    /\ view = view_router(session_state)

InitBilling ==
    /\ stripe_subscriptions = <<>>
    /\ stripe_error = None
    /\ sub_status = NotCalled

InitWorkspace ==
    /\ method_text = Str(<<>>)
    /\ title = Str(<<>>)
    /\ caption = Str(<<>>)
    /\ diagram_type = "METHODOLOGY"
    /\ generation = "idle"
    /\ tmp_file = None
    /\ pipeline_call = None

Init == InitApp /\ InitBilling /\ InitWorkspace

----------------------------------------------------------------------------
(* User interactions *)

\* A script run with no button clicked.
PageLoad ==
    /\ session_state' = init_session_state(session_state)
    /\ clicked' = ""
    /\ message' = NoMessage
    /\ checkout_url' = None
    /\ view' = view_router(session_state')
    /\ UNCHANGED <<STRIPE_PRODUCTS, login_email, billingVars, workspaceVars>>

\* Sidebar, logged out: "Mit E-Mail anmelden" with the text input's value.
LoginClick ==
    \E email \in Emails :
        LET ss == init_session_state(session_state)
        IN  /\ ~Truthy(ss["user_id"])
            /\ clicked' = "login"
            /\ login_email' = email
            /\ IF Truthy(email)
               THEN /\ session_state' = login_handler(ss, email)
                    /\ message' = NoMessage
               ELSE /\ session_state' = ss
                    /\ message' = [kind |-> "error",
                                   text |-> "Bitte gib eine E-Mail-Adresse ein."]
            /\ checkout_url' = None
            /\ view' = view_router(session_state')
            /\ UNCHANGED <<STRIPE_PRODUCTS, billingVars, workspaceVars>>

\* Sidebar, logged out: "Google anmelden".
GoogleClick ==
    LET ss == init_session_state(session_state)
    IN  /\ ~Truthy(ss["user_id"])
        /\ clicked' = "google"
        /\ session_state' = ss
        /\ message' = [kind |-> "info", text |-> "Google OAuth wird bald verfuegbar!"]
        /\ checkout_url' = None
        /\ view' = view_router(session_state')
        /\ UNCHANGED <<STRIPE_PRODUCTS, login_email, billingVars, workspaceVars>>

\* Sidebar, logged in: "Logout".
LogoutClick ==
    LET ss == init_session_state(session_state)
    IN  /\ Truthy(ss["user_id"])
        /\ clicked' = "logout"
        /\ session_state' = logout(ss)
        /\ message' = NoMessage
        /\ checkout_url' = None
        /\ view' = view_router(session_state')
        /\ UNCHANGED <<STRIPE_PRODUCTS, login_email, billingVars, workspaceVars>>

\* Landing: a plan's subscribe button (keys buy_pro, buy_enterprise).
LandingSubscribeClick ==
    \E plan \in Plans :
        LET ss == init_session_state(session_state)
        IN  /\ view_router(ss) = "Landing"
            /\ clicked' = IF plan = "pro" THEN "buy_pro" ELSE "buy_enterprise"
            /\ session_state' = SetItem(ss, "checkout_plan", plan)
            /\ message' = NoMessage
            /\ checkout_url' = None
            /\ view' = view_router(session_state')
            /\ UNCHANGED <<STRIPE_PRODUCTS, login_email, billingVars, workspaceVars>>

\* Paywall: a plan's subscribe button (keys buy_pro_2, buy_enterprise_2).
PaywallSubscribeClick ==
    \E plan \in Plans :
        LET ss == init_session_state(session_state)
            price_id == STRIPE_PRODUCTS[plan]
        IN  /\ view_router(ss) = "Paywall"
            /\ \E outcome \in StripeCreateOutcomes(price_id) :
                 LET r == create_stripe_checkout_session(price_id, plan, outcome)
                 IN  /\ checkout_url' = r.session
                     /\ message' =
                          IF r.session # None
                          THEN [kind |-> "info", text |-> "Du wirst zu Stripe weitergeleitet."]
                          ELSE r.msg
            /\ clicked' = IF plan = "pro" THEN "buy_pro_2" ELSE "buy_enterprise_2"
            /\ session_state' = ss
            /\ view' = view_router(session_state')
            /\ UNCHANGED <<STRIPE_PRODUCTS, login_email, billingVars, workspaceVars>>

----------------------------------------------------------------------------
(* The provider, and the subscription lookup *)

\* The user pays on the hosted checkout page the link leads to (mode =
\* "subscription"): the provider records an active subscription of the plan.
CheckoutCompleted ==
    /\ checkout_url # None
    /\ Len(stripe_subscriptions) < MaxSubs
    /\ \E plan \in Plans :
         /\ checkout_url = Str(<<"checkout">> \o PriceOf(plan).str)
         /\ stripe_subscriptions' =
              <<[status |-> "active", plan |-> [nickname |-> Str(<<plan>>)]]>>
                  \o stripe_subscriptions
    /\ UNCHANGED <<appVars, stripe_error, sub_status, workspaceVars>>

\* check_subscription_status evaluated on the provider's answer; no handler of
\* the page calls it, and it writes nothing to the session.
CheckSubscription ==
    \E err \in {None} \cup {Str(<<e>>) : e \in StripeErrors} :
        LET r == check_subscription_status(stripe_subscriptions, err)
        IN  /\ stripe_error' = err
            /\ sub_status' = r.ret
            /\ message' = r.msg
            /\ UNCHANGED <<STRIPE_PRODUCTS, session_state, login_email, clicked,
                           checkout_url, view, stripe_subscriptions, workspaceVars>>

Next ==
    \/ PageLoad
    \/ LoginClick
    \/ GoogleClick
    \/ LogoutClick
    \/ LandingSubscribeClick
    \/ PaywallSubscribeClick
    \/ CheckoutCompleted
    \/ CheckSubscription

Spec == Init /\ [][Next]_vars

----------------------------------------------------------------------------
(* check_subscription_status on every answer of the provider *)

InitLookup ==
    /\ InitApp
    /\ stripe_subscriptions \in SeqsUpTo(Subscriptions, MaxSubs)
    /\ stripe_error = None
    /\ sub_status = NotCalled
    /\ InitWorkspace

NextLookup == CheckSubscription

SpecLookup == InitLookup /\ [][NextLookup]_vars

----------------------------------------------------------------------------
(* Workspace: the generate button *)

\* The branch of the handler taken when an input is empty, and what follows the
\* pipeline call, lie past the end of the source file: the message is the
\* InvalidInput of the specification, and the temp file is removed only after a
\* call that succeeded.
invalid_input_message == [kind |-> "error", text |-> "InvalidInput"]
tmp_after_call(tmp, outcome) ==
    IF outcome = "ok" THEN [tmp EXCEPT !.deleted = TRUE] ELSE tmp

\* run_generation(path, cap, diag_type) reads the text back from the temp file
\* and awaits pipeline.generate on the input built from it.
run_generation(tmp, cap, diag_type) ==
    [source_context |-> tmp.content, communicative_intent |-> cap,
     diag_type |-> diag_type]

\* A session the workspace branch is drawn for.  No handler of the page sets
\* is_subscribed, so the generate handler is checked from such a session.
SubscribedSession ==
    SetItem(authenticate_user(init_session_state(EmptySession), Str(<<"B", "@">>)),
            "is_subscribed", TRUE)

InitGenerate ==
    /\ STRIPE_PRODUCTS = [p \in Plans |-> PriceOf(p)]
    /\ session_state = SubscribedSession
    /\ login_email = Str(<<>>)
    /\ clicked = ""
    /\ message = NoMessage
    /\ checkout_url = None
    /\ view = view_router(session_state)
    /\ InitBilling
    /\ method_text \in Texts
    /\ title \in Texts
    /\ caption \in Texts
    /\ diagram_type \in DiagramTypes
    /\ generation = "idle"
    /\ tmp_file = None
    /\ pipeline_call = None

\* "Diagramm generieren" with the inputs on the page: the temp file is written
\* and closed, and run_generation suspends at its await of pipeline.generate.
GenerateClick ==
    LET ss == init_session_state(session_state)
    IN  /\ view_router(ss) = "Workspace"
        /\ generation = "idle"
        /\ clicked' = "generate"
        /\ session_state' = ss
        /\ checkout_url' = None
        /\ view' = view_router(session_state')
        /\ IF Truthy(method_text) /\ Truthy(title) /\ Truthy(caption)
           THEN LET tmp == [content |-> method_text.str, deleted |-> FALSE]
                IN  /\ tmp_file' = tmp
                    /\ pipeline_call' = run_generation(tmp, caption, diagram_type)
                    /\ generation' = "awaiting"
                    /\ message' = NoMessage
           ELSE /\ pipeline_call' = None
                /\ tmp_file' = None
                /\ generation' = "idle"
                /\ message' = invalid_input_message
        /\ UNCHANGED <<STRIPE_PRODUCTS, login_email, billingVars, method_text, title,
                       caption, diagram_type>>

\* pipeline.generate returns or raises, and the handler goes on after the await.
GenerationReturns ==
    /\ generation = "awaiting"
    /\ generation' = "idle"
    /\ \E outcome \in {"ok", "PipelineError"} :
         /\ tmp_file' = tmp_after_call(tmp_file, outcome)
         /\ message' = IF outcome = "ok" THEN NoMessage
                       ELSE [kind |-> "error", text |-> "PipelineError"]
    /\ UNCHANGED <<STRIPE_PRODUCTS, session_state, login_email, clicked, checkout_url,
                   view, billingVars, method_text, title, caption, diagram_type,
                   pipeline_call>>

NextGenerate ==
    \/ GenerateClick
    \/ GenerationReturns

SpecGenerate == InitGenerate /\ [][NextGenerate]_vars

----------------------------------------------------------------------------
(* The view router on every session state *)

AnyUserId == {None, Str(<<>>), Str(<<"b", "@">>)}
AnySession ==
    {[user_id |-> u, user_email |-> e, is_subscribed |-> b,
      subscription_plan |-> p, subscription_valid_until |-> d] :
        u \in AnyUserId, e \in {None, Str(<<"B", "@">>)}, b \in BOOLEAN,
        p \in {None, Str(<<"Pro">>)}, d \in {None, Str(<<"2099-01-01">>)}}

InitRouter ==
    /\ STRIPE_PRODUCTS = [p \in Plans |-> PriceOf(p)]
    /\ session_state \in AnySession
    /\ login_email = Str(<<>>)
    /\ clicked = ""
    /\ message = NoMessage
    /\ checkout_url = None
    /\ view = view_router(session_state)
    /\ InitBilling
    /\ method_text \in {Str(<<>>), Str(<<"x">>)}
    /\ title = Str(<<"x">>)
    /\ caption = Str(<<"x">>)
    /\ diagram_type \in DiagramTypes
    /\ generation = "idle"
    /\ tmp_file = None
    /\ pipeline_call = None

NextRouter ==
    \/ PageLoad
    \/ LoginClick
    \/ GoogleClick
    \/ LogoutClick
    \/ LandingSubscribeClick
    \/ PaywallSubscribeClick
    \/ GenerateClick
    \/ GenerationReturns

SpecRouter == InitRouter /\ [][NextRouter]_vars

----------------------------------------------------------------------------
(* Properties *)

HasIdentity(ss) == ss["user_id"] # None /\ ss["user_id"] # Str(<<>>)

SessionFields ==
    {"user_id", "user_email", "is_subscribed", "subscription_plan",
     "subscription_valid_until"}

SameSession(a, b) == \A k \in SessionFields : a[k] = b[k]

Cleared(ss) ==
    /\ ss["user_id"] = None
    /\ ss["user_email"] = None
    /\ ss["is_subscribed"] = FALSE
    /\ ss["subscription_plan"] = None
    /\ ss["subscription_valid_until"] = None

\* C1: every session state draws exactly one of the three views: Landing iff the
\* session has no identity, Paywall iff it has one and is not subscribed,
\* Workspace iff it has one and is subscribed.
C1_ViewFixedByState ==
    /\ view \in {"Landing", "Paywall", "Workspace"}
    /\ (view = "Landing") <=> ~HasIdentity(session_state)
    /\ (view = "Paywall") <=>
           (HasIdentity(session_state) /\ session_state["is_subscribed"] = FALSE)
    /\ (view = "Workspace") <=>
           (HasIdentity(session_state) /\ session_state["is_subscribed"] = TRUE)

C1_Witness ==
    /\ view = "Landing"
    /\ session_state["user_id"] = Str(<<>>)
    /\ session_state["is_subscribed"] = TRUE

\* C2: a login submitted with an e-mail that has no "@" is rejected with an error
\* and leaves every session field unchanged, so the view stays Landing.
HasAt(s) == \E i \in 1..Len(s) : s[i] = "@"

C2_InvalidEmailRejected ==
    [][(clicked' = "login" /\ ~HasAt(login_email'.str)) =>
          /\ SameSession(session_state', session_state)
          /\ message'.kind = "error"
          /\ view' = "Landing"]_vars

\* C3: from Landing, a login that succeeds without an active subscription being
\* reported draws Paywall next, never Workspace.
C3_LoginLeadsToPaywall ==
    [][(view = "Landing" /\ clicked' = "login" /\ HasIdentity(session_state')) =>
          (view' = "Paywall" /\ session_state'["is_subscribed"] = FALSE)]_vars

C3_Witness ==
    /\ clicked = "login"
    /\ view = "Paywall"
    /\ session_state["user_id"] = Str(<<"b", "@">>)
    /\ session_state["user_email"] = Str(<<"B", "@">>)

\* C4: after a login, a completed checkout for plan pro and a subscription lookup
\* that reports active, the next evaluation of the page draws Workspace with
\* is_subscribed set and plan pro.
C4_CheckoutUnlocksWorkspace ==
    [][(/\ HasIdentity(session_state)
        /\ stripe_subscriptions # <<>>
        /\ stripe_subscriptions[1].status = "active"
        /\ sub_status = <<TRUE, Str(<<"pro">>)>>
        /\ PageLoad) =>
          /\ view' = "Workspace"
          /\ session_state'["is_subscribed"] = TRUE
          /\ session_state'["subscription_plan"] = Str(<<"pro">>)]_vars

\* C5: the lookup reports active only when it raised nothing and the customer's
\* most recent subscription has status "active"; when the lookup raises, when
\* there is no subscription and when the status is another one, it reports
\* (False, None).
C5_LookupFailsClosed ==
    sub_status # NotCalled =>
        /\ sub_status[1] = TRUE =>
               /\ stripe_error = None
               /\ stripe_subscriptions # <<>>
               /\ stripe_subscriptions[1].status = "active"
        /\ (\/ stripe_error # None
            \/ stripe_subscriptions = <<>>
            \/ stripe_subscriptions[1].status # "active") =>
               sub_status = <<FALSE, None>>

C5_Witness ==
    /\ stripe_error # None
    /\ Len(stripe_subscriptions) = 2
    /\ stripe_subscriptions[1].status = "active"
    /\ stripe_subscriptions[1].plan # None
    /\ sub_status = <<FALSE, None>>

\* C6 (not settled): is_subscribed implies a catalog plan and a valid_until.
\* No handler sets is_subscribed, which NeverSubscribed states.
C6_SubscribedHasPlan ==
    session_state["is_subscribed"] = TRUE =>
        /\ session_state["subscription_plan"] \in {Str(<<p>>) : p \in Plans}
        /\ session_state["subscription_valid_until"] # None

NeverSubscribed == session_state["is_subscribed"] = FALSE /\ view # "Workspace"

\* C7: logout clears the identity and subscription fields from any state, a
\* second logout changes nothing more, and the view drawn afterwards is Landing.
C7_LogoutClearsIdempotent ==
    /\ Cleared(logout(session_state))
    /\ logout(logout(session_state)) = logout(session_state)
    /\ clicked = "logout" => (Cleared(session_state) /\ view = "Landing")

C7_Witness ==
    /\ clicked = "logout"
    /\ view = "Landing"
    /\ pipeline_call # None

\* C8: the generate button calls the pipeline exactly when source text and
\* caption are non-empty after trimming (the title does not matter), and writes
\* no temp file when it does not call it.
RECURSIVE TrimLeft(_)
TrimLeft(s) == IF s # <<>> /\ Head(s) = " " THEN TrimLeft(Tail(s)) ELSE s
RECURSIVE TrimRight(_)
TrimRight(s) ==
    IF s # <<>> /\ s[Len(s)] = " " THEN TrimRight(SubSeq(s, 1, Len(s) - 1)) ELSE s
Trim(s) == TrimRight(TrimLeft(s))

C8_GenerateValidatesInput ==
    clicked = "generate" =>
        /\ (pipeline_call # None) <=>
               (Trim(method_text.str) # <<>> /\ Trim(caption.str) # <<>>)
        /\ pipeline_call = None => tmp_file = None

\* C9: an error raised while a user action is handled (a rejected login, a failed
\* checkout-session creation, a failed subscription lookup) shows an inline
\* error message and leaves the session state and the view as they were.
C9_ErrorsLeaveSessionUnchanged ==
    [][/\ message'.kind = "error" =>
              (session_state' = session_state /\ view' = view)
       /\ (LoginClick /\ login_email' = Str(<<>>)) => message'.kind = "error"
       /\ (PaywallSubscribeClick /\ checkout_url' = None) => message'.kind = "error"
       /\ (CheckSubscription /\ stripe_error' # None) => message'.kind = "error"
      ]_vars

C9_Witness ==
    /\ clicked = "buy_pro_2"
    /\ checkout_url = None
    /\ message = [kind |-> "error", text |-> "Fehler beim Erstellen der Checkout-Session"]
    /\ view = "Paywall"

\* C10: a checkout for a plan whose price_id is not configured fails with an
\* error of its own, neither the payment-declined nor the provider error, and
\* shows no checkout link.
PlanOfButton == [buy_pro_2 |-> "pro", buy_enterprise_2 |-> "enterprise"]

C10_PlanNotConfiguredDistinct ==
    (clicked \in DOMAIN PlanOfButton /\ STRIPE_PRODUCTS[PlanOfButton[clicked]] = None) =>
        /\ checkout_url = None
        /\ message.kind = "error"
        /\ message.text \notin {"Zahlungsfehler",
                                "Fehler beim Erstellen der Checkout-Session"}

====
